---- MODULE Spec2Model ----
(***************************************************************************)
(* Model of docker/utils/x11_utils.py and                                  *)
(* docker/utils/container_interface.py.                                    *)
(*                                                                         *)
(* Three specifications share the module:                                  *)
(*   SpecX11   the X11 helper (check / configure / cleanup / refresh)      *)
(*             over the state store and the temporary files on disk;       *)
(*   SpecInit  the construction of a ContainerInterface (profile alias,    *)
(*             argument lists, dot-env parsing);                           *)
(*   SpecCI    the container commands (start / enter / stop / copy /       *)
(*             config) against the docker engine and the host disk.        *)
(*                                                                         *)
(* Text is modelled as a sequence of one-character strings wherever the    *)
(* code looks inside it (strip, split, lower); None is the empty tuple     *)
(* and a value v read from the state store is the 1-tuple <<v>>.           *)
(***************************************************************************)
EXTENDS Integers, Sequences, FiniteSets, TLC

VARIABLES
    \* ---- X11 helper --------------------------------------------------
    statefile,      \* the "X11" namespace of .container.cfg: key -> value
    fs,             \* temporary files on disk: path -> contents
    dirs,           \* temporary directories on disk
    mktemp_seq,     \* number of names mktemp has handed out
    cookie,         \* output of `xauth nlist $DISPLAY` (a list of fields)
    platform,       \* sys.platform
    xauth_installed,\* shutil.which("xauth") is not None
    display_set,    \* "DISPLAY" in os.environ
    last,           \* the last X11 call: operation, inputs, state before, outcome
    \* ---- ContainerInterface ------------------------------------------
    envfs,          \* the .env files of the context directory: name -> lines
    args,           \* the constructor's arguments (profile, yamls, envs)
    ci,             \* the constructed object, or its construction failure
    docker_status,  \* stdout of `docker container inspect -f {{.State.Status}}`
    hostdirs,       \* directories on the host below the output directories
    clast           \* the last container command: inputs, state before, outcome

vars == <<statefile, fs, dirs, mktemp_seq, cookie, platform, xauth_installed,
          display_set, last, envfs, args, ci, docker_status, hostdirs, clast>>

x11vars == <<statefile, fs, dirs, mktemp_seq, cookie, platform, xauth_installed,
             display_set, last>>
civars  == <<envfs, args, ci, docker_status, hostdirs, clast>>

(***************************************************************************)
(* Bounds of the model.                                                    *)
(***************************************************************************)
MaxCreate == 3     \* temporary files configure_x11 may create in one behaviour
MaxPrompts == 2    \* prompts counted in one behaviour

(***************************************************************************)
(* Python values.                                                          *)
(***************************************************************************)
None == <<>>
Some(v) == <<v>>

\* str.lower() on the characters the prompt answers are made of
lower_char(c) ==
    CASE c = "Y" -> "y"
      [] c = "N" -> "n"
      [] c = "E" -> "e"
      [] c = "S" -> "s"
      [] OTHER -> c

lower(s) == [i \in 1..Len(s) |-> lower_char(s[i])]

(***************************************************************************)
(* The state store (StateFile), namespace "X11".                           *)
(***************************************************************************)
get_variable(sf, key) == IF key \in DOMAIN sf THEN Some(sf[key]) ELSE None

set_variable(sf, key, value) ==
    [k \in (DOMAIN sf) \cup {key} |-> IF k = key THEN value ELSE sf[k]]

delete_variable(sf, key) == [k \in (DOMAIN sf) \ {key} |-> sf[k]]

(***************************************************************************)
(* Paths and the external tools mktemp and xauth.                          *)
(* A path is <<directory, name>>; directory TmpRoot is $TMPDIR (/tmp),     *)
(* every other directory is one that `mktemp -d` made below it.            *)
(***************************************************************************)
TmpRoot == 0

parent(path) == path[1]
exists(w, path) == path \in DOMAIN w.fs

\* the world the helper acts on
World == [statefile |-> statefile, fs |-> fs, dirs |-> dirs, seq |-> mktemp_seq]

write_file(f, path, content) ==
    [p \in (DOMAIN f) \cup {path} |-> IF p = path THEN content ELSE f[p]]

remove_file(f, path) == [p \in (DOMAIN f) \ {path} |-> f[p]]

\* `mktemp -d`: a new, empty directory below $TMPDIR
mktemp_d(w) ==
    [w |-> [w EXCEPT !.dirs = @ \cup {w.seq + 1}, !.seq = @ + 1],
     out |-> w.seq + 1]

\* `mktemp` of a file in directory d: a new, empty file
mktemp_file(w, d) ==
    [w |-> [w EXCEPT !.fs = write_file(@, <<d, w.seq + 1>>, <<>>), !.seq = @ + 1],
     out |-> <<d, w.seq + 1>>]

\* str.replace("ffff", "") on the fields of the cookie listing
replace_ffff(text) == SelectSeq(text, LAMBDA field : field # "ffff")


\* `xauth -f file nmerge -`: the listing replaces the file's entry for the display
xauth_nmerge(old, listing) == listing

K_ENABLED == "X11_FORWARDING_ENABLED"
K_XAUTH   == "__ISAACLAB_TMP_XAUTH"
K_DIR     == "__ISAACLAB_TMP_DIR"

\* return values of the helper's functions: None, or (argv, env)
RetNone == [is_none |-> TRUE, argv |-> <<>>, env |-> <<>>]
Ret(argv, env) == [is_none |-> FALSE, argv |-> argv, env |-> env]

(***************************************************************************)
(* create_x11_tmpfile(tmpfile, tmpdir): [w, outcome, path]                 *)
(***************************************************************************)
create_x11_tmpfile(w, tmpfile, tmpdir) ==
    LET made ==
            IF tmpfile = None
            THEN IF platform = "darwin"
                 THEN mktemp_file(w, TmpRoot)                \* mktemp -t xauth
                 ELSE IF tmpdir # None
                      THEN mktemp_file(w, tmpdir[1])         \* --tmpdir={tmpdir}
                      ELSE mktemp_file(w, TmpRoot)
            ELSE [w |-> [w EXCEPT !.fs =                     \* tmpfile.touch()
                            IF tmpfile[1] \in DOMAIN @ THEN @
                            ELSE write_file(@, tmpfile[1], <<>>)],
                  out |-> tmpfile[1]]
        tmp_xauth == made.out
    IN  IF ~display_set
        THEN \* os.environ["DISPLAY"] raises KeyError
             [w |-> made.w, outcome |-> "raise", path |-> tmp_xauth]
        ELSE LET xauth_cookie == replace_ffff(cookie)
             IN  [w |-> [made.w EXCEPT !.fs =
                            write_file(@, tmp_xauth, xauth_nmerge(@[tmp_xauth], xauth_cookie))],
                  outcome |-> "return",
                  path |-> tmp_xauth]

(***************************************************************************)
(* configure_x11(statefile): [w, outcome, ret]                             *)
(***************************************************************************)
configure_x11(w) ==
    IF ~xauth_installed
    THEN [w |-> w, outcome |-> "exit", ret |-> RetNone]
    ELSE
    LET tmp_xauth_value == get_variable(w.statefile, K_XAUTH)
    IN  IF tmp_xauth_value = None \/ ~exists(w, tmp_xauth_value[1])
        THEN LET d == mktemp_d(w)
                 tmp_dir == d.out
                 c == create_x11_tmpfile(d.w, None, Some(tmp_dir))
             IN  IF c.outcome # "return"
                 THEN [w |-> c.w, outcome |-> c.outcome, ret |-> RetNone]
                 ELSE [w |-> [c.w EXCEPT !.statefile = set_variable(@, K_XAUTH, c.path)],
                       outcome |-> "return",
                       ret |-> Ret(<<>>, [k \in {K_XAUTH, K_DIR} |->
                                            IF k = K_XAUTH THEN c.path ELSE tmp_dir])]
        ELSE LET tmp_dir == parent(tmp_xauth_value[1])
             IN  [w |-> w,
                  outcome |-> "return",
                  ret |-> Ret(<<>>, [k \in {K_XAUTH, K_DIR} |->
                                       IF k = K_XAUTH THEN tmp_xauth_value[1] ELSE tmp_dir])]

\* x11_check comparing the answer without lower()
x11_check_case_sensitive(w, x11_answer) ==
    LET stored == get_variable(w.statefile, K_ENABLED)
        prompted == (stored = None)
        is_x11_forwarding_enabled ==
            IF stored = None
            THEN IF x11_answer = <<"y">> THEN "1" ELSE "0"
            ELSE stored[1]
        w1 == IF stored = None
              THEN [w EXCEPT !.statefile = set_variable(@, K_ENABLED, is_x11_forwarding_enabled)]
              ELSE w
    IN  IF is_x11_forwarding_enabled = "1"
        THEN LET c == configure_x11(w1)
             IN  [w |-> c.w,
                  outcome |-> c.outcome,
                  ret |-> IF c.outcome = "return"
                          THEN Ret(<<"--file", "x11.yaml">>, c.ret.env)
                          ELSE RetNone,
                  prompted |-> prompted]
        ELSE [w |-> w1, outcome |-> "return", ret |-> RetNone, prompted |-> prompted]

\* x11_check configuring for every flag but "0"
x11_check_not_zero(w, x11_answer) ==
    LET stored == get_variable(w.statefile, K_ENABLED)
        prompted == (stored = None)
        is_x11_forwarding_enabled ==
            IF stored = None
            THEN IF lower(x11_answer) = <<"y">> THEN "1" ELSE "0"
            ELSE stored[1]
        w1 == IF stored = None
              THEN [w EXCEPT !.statefile = set_variable(@, K_ENABLED, is_x11_forwarding_enabled)]
              ELSE w
    IN  IF is_x11_forwarding_enabled # "0"
        THEN LET c == configure_x11(w1)
             IN  [w |-> c.w,
                  outcome |-> c.outcome,
                  ret |-> IF c.outcome = "return"
                          THEN Ret(<<"--file", "x11.yaml">>, c.ret.env)
                          ELSE RetNone,
                  prompted |-> prompted]
        ELSE [w |-> w1, outcome |-> "return", ret |-> RetNone, prompted |-> prompted]

(***************************************************************************)
(* x11_check(statefile), the user typing x11_answer if asked:              *)
(* [w, outcome, ret, prompted]                                             *)
(***************************************************************************)
x11_check(w, x11_answer) ==
    LET stored == get_variable(w.statefile, K_ENABLED)
        prompted == (stored = None)
        is_x11_forwarding_enabled ==
            IF stored = None
            THEN IF lower(x11_answer) = <<"y">> THEN "1" ELSE "0"
            ELSE stored[1]
        w1 == IF stored = None
              THEN [w EXCEPT !.statefile = set_variable(@, K_ENABLED, is_x11_forwarding_enabled)]
              ELSE w
    IN  IF is_x11_forwarding_enabled = "1"
        THEN LET c == configure_x11(w1)
             IN  [w |-> c.w,
                  outcome |-> c.outcome,
                  ret |-> IF c.outcome = "return"
                          THEN Ret(<<"--file", "x11.yaml">>, c.ret.env)
                          ELSE RetNone,
                  prompted |-> prompted]
        ELSE [w |-> w1, outcome |-> "return", ret |-> RetNone, prompted |-> prompted]

\* x11_cleanup without the exists() test: unlink of a missing file raises
x11_cleanup_unchecked(w) ==
    LET tmp_xauth_value == get_variable(w.statefile, K_XAUTH)
    IN  IF tmp_xauth_value # None
        THEN IF exists(w, tmp_xauth_value[1])
             THEN [w |-> [w EXCEPT !.fs = remove_file(@, tmp_xauth_value[1]),
                                   !.statefile = delete_variable(@, K_XAUTH)],
                   outcome |-> "return"]
             ELSE [w |-> w, outcome |-> "raise"]
        ELSE [w |-> w, outcome |-> "return"]

\* x11_cleanup forgetting delete_variable
x11_cleanup_keeps_variable(w) ==
    LET tmp_xauth_value == get_variable(w.statefile, K_XAUTH)
    IN  IF tmp_xauth_value # None /\ exists(w, tmp_xauth_value[1])
        THEN [w |-> [w EXCEPT !.fs = remove_file(@, tmp_xauth_value[1])],
              outcome |-> "return"]
        ELSE [w |-> w, outcome |-> "return"]

(***************************************************************************)
(* x11_cleanup(statefile): [w, outcome]                                    *)
(***************************************************************************)
x11_cleanup(w) ==
    LET tmp_xauth_value == get_variable(w.statefile, K_XAUTH)
    IN  IF tmp_xauth_value # None /\ exists(w, tmp_xauth_value[1])
        THEN [w |-> [w EXCEPT !.fs = remove_file(@, tmp_xauth_value[1]),
                              !.statefile = delete_variable(@, K_XAUTH)],
              outcome |-> "return"]
        ELSE [w |-> w, outcome |-> "return"]

(***************************************************************************)
(* x11_refresh(statefile): [w, outcome]                                    *)
(***************************************************************************)
x11_refresh(w) ==
    LET is_x11_forwarding_enabled == get_variable(w.statefile, K_ENABLED)
        tmp_xauth_value == get_variable(w.statefile, K_XAUTH)
    IN  IF tmp_xauth_value # None /\ exists(w, tmp_xauth_value[1])
        THEN LET unlinked == [w EXCEPT !.fs = remove_file(@, tmp_xauth_value[1])]
                 c == create_x11_tmpfile(unlinked, tmp_xauth_value, None)
             IN  IF c.outcome # "return"
                 THEN [w |-> c.w, outcome |-> c.outcome]
                 ELSE [w |-> [c.w EXCEPT !.statefile =
                                 set_variable(@, K_XAUTH, tmp_xauth_value[1])],
                       outcome |-> "return"]
        ELSE IF tmp_xauth_value = None
             THEN IF is_x11_forwarding_enabled = Some("1")
                  THEN [w |-> w, outcome |-> "exit"]          \* sys.exit(1)
                  ELSE [w |-> w, outcome |-> "return"]
             ELSE [w |-> w, outcome |-> "return"]

(***************************************************************************)
(* The X11 state machine.                                                  *)
(***************************************************************************)
\* what the user may type at the prompt
Answers == { <<"y">>, <<"Y">>, <<"n">>, <<"N">>, <<>>, <<"y", "e", "s">>,
             <<"Y", "E", "S">>, <<" ", "y">> }

\* what `xauth nlist` may print for the display
Cookies == { <<"ffff", "0004", "a1">>, <<"0100", "0004", "b2">> }

\* what .container.cfg may hold for the flag before the first call:
\* nothing, or a value the user wrote there by hand
InitFlags == { None, Some("0"), Some("1"), Some("true") }

Platforms == { "linux", "darwin" }

\* the record of a call: what was called with what, the world before it, how
\* it ended and what it returned; and of the call before it, its name and the
\* path that was persisted when it began; and the prompts issued so far
Called(op, answer, pre, r, ret, prompted) ==
    [op |-> op, answer |-> answer, pre |-> pre, outcome |-> r.outcome,
     ret |-> ret, prompted |-> prompted,
     prev_op |-> last.op,
     prev_xauth |-> get_variable(last.pre.statefile, K_XAUTH),
     prompts |-> last.prompts + (IF prompted THEN 1 ELSE 0)]

NoCall(op, pre) ==
    [op |-> op, answer |-> None, pre |-> pre, outcome |-> "return",
     ret |-> RetNone, prompted |-> FALSE, prev_op |-> "none", prev_xauth |-> None,
     prompts |-> 0]

Apply(r) ==
    /\ r.w.seq <= 2 * MaxCreate      \* a directory and a file for each
    /\ statefile' = r.w.statefile
    /\ fs' = r.w.fs
    /\ dirs' = r.w.dirs
    /\ mktemp_seq' = r.w.seq
    /\ UNCHANGED <<cookie, platform, xauth_installed, display_set>>
    /\ UNCHANGED civars

Check ==
    \E x11_answer \in Answers :
        LET r == x11_check(World, x11_answer)
        IN  /\ Apply(r)
            /\ r.prompted => last.prompts < MaxPrompts
            /\ last' = Called("x11_check", IF r.prompted THEN Some(x11_answer) ELSE None,
                              World, r, r.ret, r.prompted)

Configure ==
    LET r == configure_x11(World)
    IN  /\ Apply(r)
        /\ last' = Called("configure_x11", None, World, r, r.ret, FALSE)

Cleanup ==
    LET r == x11_cleanup(World)
    IN  /\ Apply(r)
        /\ last' = Called("x11_cleanup", None, World, r, RetNone, FALSE)

Refresh ==
    LET r == x11_refresh(World)
    IN  /\ Apply(r)
        /\ last' = Called("x11_refresh", None, World, r, RetNone, FALSE)

\* the host clears a temporary file (reboot, tmp cleaner): the case the
\* Path(...).exists() tests of the helper are there for
TmpReaper ==
    \E p \in DOMAIN fs :
        /\ fs' = remove_file(fs, p)
        /\ last' = Called("tmp_reaper", None, World, [outcome |-> "return"], RetNone, FALSE)
        /\ UNCHANGED <<statefile, dirs, mktemp_seq, cookie, platform,
                       xauth_installed, display_set>>
        /\ UNCHANGED civars

\* the X session is restarted: the display's cookie changes
NewSession ==
    \E c \in Cookies \ {cookie} :
        /\ cookie' = c
        /\ last' = Called("new_session", None, World, [outcome |-> "return"], RetNone, FALSE)
        /\ UNCHANGED <<statefile, fs, dirs, mktemp_seq, platform,
                       xauth_installed, display_set>>
        /\ UNCHANGED civars


InitX11Vars ==
    /\ statefile \in { IF f = None THEN <<>> ELSE [k \in {K_ENABLED} |-> f[1]] : f \in InitFlags }
    /\ fs = <<>>
    /\ dirs = {}
    /\ mktemp_seq = 0
    /\ cookie \in Cookies
    /\ platform \in Platforms
    /\ xauth_installed \in BOOLEAN
    /\ display_set \in BOOLEAN
    /\ last = NoCall("none", World)

(***************************************************************************)
(* Text: strip, "=" in line, split("=", 1), dict(...), dict.update.        *)
(* A text is a sequence of characters; a run of characters that holds      *)
(* neither white space nor "=" may stand as one element.                   *)
(***************************************************************************)
MaxLines == 2      \* lines of a .env file
MaxEnvs  == 2      \* env files the caller passes

Whitespace == { " ", "\n", "\t" }

RECURSIVE lstrip(_)
lstrip(s) == IF s # <<>> /\ Head(s) \in Whitespace THEN lstrip(Tail(s)) ELSE s

RECURSIVE rstrip(_)
rstrip(s) ==
    IF s # <<>> /\ s[Len(s)] \in Whitespace THEN rstrip(SubSeq(s, 1, Len(s) - 1)) ELSE s

strip(s) == lstrip(rstrip(s))

contains_eq(line) == \E i \in 1..Len(line) : line[i] = "="

\* the text split at its last "=" (rsplit) instead of its first
rsplit_eq_1(s) ==
    LET i == CHOOSE j \in 1..Len(s) : s[j] = "=" /\ \A k \in (j + 1)..Len(s) : s[k] # "="
    IN  <<SubSeq(s, 1, i - 1), SubSeq(s, i + 1, Len(s))>>

\* s.split("=", 1) of a text that holds "="
split_eq_1(s) ==
    LET i == CHOOSE j \in 1..Len(s) : s[j] = "=" /\ \A k \in 1..(j - 1) : s[k] # "="
    IN  <<SubSeq(s, 1, i - 1), SubSeq(s, i + 1, Len(s))>>

\* d.update(e)
update(d, e) == [k \in (DOMAIN d) \cup (DOMAIN e) |-> IF k \in DOMAIN e THEN e[k] ELSE d[k]]

\* dict(pairs): a later pair replaces an earlier one with the same key
RECURSIVE dict(_)
dict(pairs) ==
    IF pairs = <<>> THEN <<>>
    ELSE LET n == Len(pairs)
             kv == pairs[n]
         IN  update(dict(SubSeq(pairs, 1, n - 1)), [k \in {kv[1]} |-> kv[2]])

\* [line.strip().split("=", 1) for line in f if "=" in line]
RECURSIVE parsed_pairs(_)
parsed_pairs(lines) ==
    IF lines = <<>> THEN <<>>
    ELSE (IF contains_eq(Head(lines)) THEN <<split_eq_1(strip(Head(lines)))>> ELSE <<>>)
         \o parsed_pairs(Tail(lines))

(***************************************************************************)
(* ContainerInterface.__init__ and its two helpers.                        *)
(***************************************************************************)
\* the loop appending the items without their flag
RECURSIVE extend_unflagged(_, _, _)
extend_unflagged(acc, flag, items) ==
    IF items = <<>> THEN acc
    ELSE extend_unflagged(acc \o <<Head(items)>>, flag, Tail(items))

\* for x in items: acc += [flag, x]
RECURSIVE extend_flagged(_, _, _)
extend_flagged(acc, flag, items) ==
    IF items = <<>> THEN acc
    ELSE extend_flagged(acc \o <<flag, Head(items)>>, flag, Tail(items))

\* the profile's env file appended after the caller's instead of before
_resolve_image_extension_profile_last(profile, yamls, envs) ==
    LET add_yamls0 == <<"--file", "docker-compose.yaml">>
        add_profiles == <<"--profile", profile>>
        add_env_files0 == <<"--env-file", ".env.base">>
        add_env_files1 == IF envs # None
                          THEN extend_flagged(add_env_files0, "--env-file", envs[1])
                          ELSE add_env_files0
        add_env_files2 == IF profile # "base"
                          THEN add_env_files1 \o <<"--env-file", ".env." \o profile>>
                          ELSE add_env_files1
        add_yamls1 == IF yamls # None
                      THEN extend_flagged(add_yamls0, "--file", yamls[1])
                      ELSE add_yamls0
    IN  [add_yamls |-> add_yamls1, add_profiles |-> add_profiles,
         add_env_files |-> add_env_files2]

_resolve_image_extension(profile, yamls, envs) ==
    LET add_yamls0 == <<"--file", "docker-compose.yaml">>
        add_profiles == <<"--profile", profile>>
        add_env_files0 == <<"--env-file", ".env.base">>
        add_env_files1 == IF profile # "base"
                          THEN add_env_files0 \o <<"--env-file", ".env." \o profile>>
                          ELSE add_env_files0
        add_env_files2 == IF envs # None
                          THEN extend_flagged(add_env_files1, "--env-file", envs[1])
                          ELSE add_env_files1
        add_yamls1 == IF yamls # None
                      THEN extend_flagged(add_yamls0, "--file", yamls[1])
                      ELSE add_yamls0
    IN  [add_yamls |-> add_yamls1, add_profiles |-> add_profiles,
         add_env_files |-> add_env_files2]

\* the loop of _parse_dot_vars from index i (0-based, as in range(1, len, 2))
RECURSIVE parse_from(_, _, _, _)
parse_from(add_env_files, files, i, dot_vars) ==
    IF i >= Len(add_env_files) THEN [outcome |-> "ok", dot_vars |-> dot_vars]
    ELSE LET name == add_env_files[i + 1]
         IN  IF name \notin DOMAIN files
             THEN [outcome |-> "FileNotFoundError", dot_vars |-> dot_vars]
             ELSE parse_from(add_env_files, files, i + 2,
                             update(dot_vars, dict(parsed_pairs(files[name]))))

_parse_dot_vars(add_env_files, files) ==
    IF Len(add_env_files) % 2 # 0
    THEN [outcome |-> "RuntimeError", dot_vars |-> <<>>]
    ELSE parse_from(add_env_files, files, 1, <<>>)

__init__(a, files) ==
    LET profile == IF a.profile = "isaaclab" THEN "base" ELSE a.profile
        environ == [k \in (IF display_set THEN {"DISPLAY"} ELSE {})
                          \cup (IF platform = "darwin" THEN {"DOCKER_DEFAULT_PLATFORM"} ELSE {})
                       |-> IF k = "DISPLAY" THEN ":0" ELSE "linux/arm64"]
        r == _resolve_image_extension(profile, a.yamls, a.envs)
        p == _parse_dot_vars(r.add_env_files, files)
    IN  [state |-> p.outcome,
         profile |-> profile,
         container_name |-> "isaac-lab-" \o profile,
         image_name |-> "isaac-lab-" \o profile \o ":latest",
         environ |-> environ,
         add_yamls |-> r.add_yamls,
         add_profiles |-> r.add_profiles,
         add_env_files |-> r.add_env_files,
         dot_vars |-> p.dot_vars]

NotConstructed ==
    [state |-> "new", profile |-> "", container_name |-> "", image_name |-> "",
     environ |-> <<>>, add_yamls |-> <<>>, add_profiles |-> <<>>,
     add_env_files |-> <<>>, dot_vars |-> <<>>]


(***************************************************************************)
(* The container commands.  Each returns how it ended and the external     *)
(* commands it issued, in order.  A host path is a sequence of names.      *)
(***************************************************************************)
context_dir == <<"ctx">>

\* the text as one string
RECURSIVE join(_)
join(text) == IF text = <<>> THEN "" ELSE Head(text) \o join(Tail(text))

inspect_cmd(c) ==
    <<"docker", "container", "inspect", "-f", "{{.State.Status}}", c.container_name>>

\* status == "running", status the stripped stdout of the inspect command
is_container_running(stdout) == strip(stdout) = <<"running">>

start(c) ==
    [outcome |-> "return",
     cmds |-> << <<"docker", "compose", "--file", "docker-compose.yaml",
                   "--env-file", ".env.base", "build", "isaac-lab-base">>,
                 <<"docker", "compose">> \o c.add_yamls \o c.add_profiles \o c.add_env_files
                    \o <<"up", "--detach", "--build", "--remove-orphans">> >>]

enter(c, stdout) ==
    IF is_container_running(stdout)
    THEN [outcome |-> "return",
          cmds |-> << inspect_cmd(c),
                      <<"docker", "exec", "--interactive", "--tty">>
                        \o (IF display_set THEN <<"-e", "DISPLAY=" \o ":0">> ELSE <<>>)
                        \o <<c.container_name, "bash">> >>]
    ELSE [outcome |-> "RuntimeError", cmds |-> << inspect_cmd(c) >>]

stop(c, stdout) ==
    IF is_container_running(stdout)
    THEN [outcome |-> "return",
          cmds |-> << inspect_cmd(c),
                      <<"docker", "compose">> \o c.add_yamls \o c.add_profiles
                        \o c.add_env_files \o <<"down">> >>]
    ELSE [outcome |-> "RuntimeError", cmds |-> << inspect_cmd(c) >>]

\* the three artifacts: <<path below DOCKER_ISAACLAB_PATH, name below artifacts>>
Artifacts == << <<"/logs", "logs">>, <<"/docs/_build", "docs">>,
                <<"/data_storage", "data_storage">> >>

host_str(path) == join([i \in 1..Len(path) |-> IF i = 1 THEN path[i] ELSE "/" \o path[i]])

\* copy creating the artifacts directory before it asks whether the container runs
copy_mkdir_first(c, stdout, hd, output_dir, copied) ==
    LET base == IF output_dir = None THEN context_dir ELSE output_dir[1]
        out == Append(base, "artifacts")
    IN  IF is_container_running(stdout)
        THEN [outcome |-> "return", cmds |-> << inspect_cmd(c) >>, hostdirs |-> hd \cup {out}]
        ELSE [outcome |-> "RuntimeError", cmds |-> << inspect_cmd(c) >>,
              hostdirs |-> hd \cup {out}]

\* copy(output_dir); `copied` are the artifacts whose `docker cp` succeeds
copy(c, stdout, hd, output_dir, copied) ==
    IF ~is_container_running(stdout)
    THEN [outcome |-> "RuntimeError", cmds |-> << inspect_cmd(c) >>, hostdirs |-> hd]
    ELSE
    LET base == IF output_dir = None THEN context_dir ELSE output_dir[1]
        out == Append(base, "artifacts")
    IN  IF out \notin hd /\ base \notin hd
        THEN \* output_dir.mkdir() without its parent
             [outcome |-> "FileNotFoundError", cmds |-> << inspect_cmd(c) >>, hostdirs |-> hd]
        ELSE
        LET hd1 == hd \cup {out}
        IN  IF <<"DOCKER_ISAACLAB_PATH">> \notin DOMAIN c.dot_vars
            THEN [outcome |-> "KeyError", cmds |-> << inspect_cmd(c) >>, hostdirs |-> hd1]
            ELSE
            LET docker_isaac_lab_path == join(c.dot_vars[<<"DOCKER_ISAACLAB_PATH">>])
                host(i) == Append(out, Artifacts[i][2])
                \* shutil.rmtree(path, ignore_errors=True) for every host path
                hd2 == hd1 \ { host(i) : i \in 1..Len(Artifacts) }
                cp(i) == <<"docker", "cp",
                           c.container_name \o ":" \o docker_isaac_lab_path
                               \o Artifacts[i][1] \o "/",
                           host_str(host(i))>>
            IN  [outcome |-> "return",
                 cmds |-> << inspect_cmd(c) >> \o [i \in 1..Len(Artifacts) |-> cp(i)],
                 hostdirs |-> hd2 \cup { host(i) : i \in copied }]

config(c, output_yaml) ==
    [outcome |-> "return",
     cmds |-> << <<"docker", "compose">> \o c.add_yamls \o c.add_profiles
                   \o c.add_env_files \o <<"config">>
                   \o (IF output_yaml # None THEN <<"--output", host_str(output_yaml[1])>> ELSE <<>>) >>]

(***************************************************************************)
(* Construction of a ContainerInterface.                                   *)
(***************************************************************************)
Profiles == { "base", "isaaclab", "ros2", "dev" }

\* lines a .env file may hold (as read by `for line in f`)
LinePool == { <<"A", "=", "1", "\n">>,
              <<" ", "A", "=", "2", "=", "3", " ", "\n">>,
              <<"A", "\n">> }

SeqsUpTo(S, n) == UNION { [1..m -> S] : m \in 0..n }

EnvFileContents == SeqsUpTo(LinePool, MaxLines)

\* env files the caller may name; both exist in the context directory
CallerEnvs == { ".env.extra", ".env.ros2" }

\* .env.ros2 as shipped; there is no .env.dev
EnvRos2 == << <<"A", "=", "r", "\n">>, <<"B", " ", "=", " ", "4", "\n">> >>

EnvFs(base, extra) ==
    [n \in {".env.base", ".env.extra", ".env.ros2"} |->
        IF n = ".env.base" THEN base ELSE IF n = ".env.extra" THEN extra ELSE EnvRos2]

IdleX11Vars ==
    /\ statefile = <<>>
    /\ fs = <<>>
    /\ dirs = {}
    /\ mktemp_seq = 0
    /\ cookie = <<>>
    /\ xauth_installed = TRUE
    /\ last = NoCall("none", [statefile |-> <<>>, fs |-> <<>>, dirs |-> {}, seq |-> 0])

NoCommand ==
    [op |-> "none", output_dir |-> None, was |-> <<>>, pre |-> {}, cmds |-> <<>>,
     outcome |-> "return"]

InitNew ==
    /\ IdleX11Vars
    /\ platform = "linux"
    /\ display_set = TRUE
    /\ envfs \in { EnvFs(b, e) : b \in EnvFileContents, e \in EnvFileContents }
    /\ args \in [profile : Profiles,
                 yamls : { None, Some(<<"x11.yaml">>) },
                 envs : { None } \cup { Some(e) : e \in SeqsUpTo(CallerEnvs, MaxEnvs) }]
    /\ ci = NotConstructed
    /\ docker_status = <<>>
    /\ hostdirs = {}
    /\ clast = NoCommand

Construct ==
    /\ ci.state = "new"
    /\ ci' = __init__(args, envfs)
    /\ UNCHANGED <<envfs, args, docker_status, hostdirs, clast>>
    /\ UNCHANGED x11vars

NextInit == Construct

SpecInit == InitNew /\ [][NextInit]_vars

InitX11 ==
    /\ InitX11Vars
    /\ envfs = <<>>
    /\ args = <<>>
    /\ ci = NotConstructed
    /\ docker_status = <<>>
    /\ hostdirs = {}
    /\ clast = NoCommand

NextX11 ==
    \/ Check
    \/ Configure
    \/ Cleanup
    \/ Refresh
    \/ TmpReaper
    \/ NewSession

SpecX11 == InitX11 /\ [][NextX11]_vars


(***************************************************************************)
(* Properties of the X11 helper (SpecX11).                                 *)
(***************************************************************************)
Flag(sf) == get_variable(sf, K_ENABLED)
Xauth(sf) == get_variable(sf, K_XAUTH)

\* C1: x11_check with the flag unset prompts and persists "1" for the answer
\* "y" or "Y" and "0" for every other answer; with the flag set it does not
\* prompt; no call of the helper changes a flag that is set; so at most one
\* prompt is ever issued.
C1_PromptOnce ==
    /\ last.prompts <= 1
    /\ Flag(last.pre.statefile) # None => Flag(statefile) = Flag(last.pre.statefile)
    /\ last.op = "x11_check" =>
         IF Flag(last.pre.statefile) = None
         THEN /\ last.prompted
              /\ Flag(statefile) =
                    Some(IF last.answer \in { Some(<<"y">>), Some(<<"Y">>) } THEN "1" ELSE "0")
         ELSE ~last.prompted
    /\ last.op # "x11_check" => ~last.prompted /\ Flag(statefile) = Flag(last.pre.statefile)

\* a check that did not prompt, later than the check that did and was answered "Y"
C1_Witness ==
    /\ last.op = "x11_check"
    /\ ~last.prompted
    /\ last.prompts = 1
    /\ Flag(statefile) = Some("1")

\* C2: configure_x11 right after x11_cleanup returns a path that differs from
\* the path persisted before the cleanup and that was not on disk before; and
\* an x11_cleanup right after an x11_cleanup does not raise and changes nothing.
C2_CleanupThenConfigure ==
    /\ (last.op = "configure_x11" /\ last.prev_op = "x11_cleanup" /\ last.outcome = "return") =>
         LET p == last.ret.env[K_XAUTH]
         IN  /\ Some(p) # last.prev_xauth
             /\ p \notin DOMAIN last.pre.fs
             /\ p \in DOMAIN fs
             /\ Xauth(statefile) = Some(p)
    /\ (last.op = "x11_cleanup" /\ last.prev_op = "x11_cleanup") =>
         /\ last.outcome = "return"
         /\ World = last.pre

\* configure after a cleanup that removed a persisted file
C2_Witness ==
    /\ last.op = "configure_x11"
    /\ last.prev_op = "x11_cleanup"
    /\ last.outcome = "return"
    /\ last.prev_xauth # None
    /\ Xauth(last.pre.statefile) = None

\* C4 (as claimed): x11_refresh regenerates an existing persisted file in place,
\* exits when forwarding is enabled and no path is persisted, changes nothing
\* when forwarding is not enabled and no path is persisted; and with forwarding
\* enabled it never returns leaving the state without an existing auth file.
C4_RefreshAsClaimed ==
    last.op = "x11_refresh" =>
        LET path == Xauth(last.pre.statefile)
            flag == Flag(last.pre.statefile)
        IN  /\ (path # None /\ path[1] \in DOMAIN last.pre.fs /\ last.outcome = "return") =>
                 /\ Xauth(statefile) = path
                 /\ path[1] \in DOMAIN fs
                 /\ fs[path[1]] = SelectSeq(cookie, LAMBDA f : f # "ffff")
            /\ (path = None /\ flag = Some("1")) => last.outcome = "exit"
            /\ (path = None /\ flag # Some("1")) =>
                 last.outcome = "return" /\ World = last.pre
            /\ (flag = Some("1") /\ last.outcome = "return") =>
                 /\ Xauth(statefile) # None
                 /\ Xauth(statefile)[1] \in DOMAIN fs

\* C5 (as claimed): configure_x11, when it returns, has the persisted path equal
\* to the returned one, the file on disk, the persisted path reused when it was
\* set and on disk, and the returned directory the parent of the returned file.
C5_ConfigureAsClaimed ==
    (last.op = "configure_x11" /\ last.outcome = "return") =>
        LET old == Xauth(last.pre.statefile)
            p == last.ret.env[K_XAUTH]
        IN  /\ Xauth(statefile) = Some(p)
            /\ p \in DOMAIN fs
            /\ (old # None /\ old[1] \in DOMAIN last.pre.fs) =>
                 p = old[1] /\ World = last.pre
            /\ ~(old # None /\ old[1] \in DOMAIN last.pre.fs) =>
                 p \notin DOMAIN last.pre.fs
            /\ last.ret.env[K_DIR] = p[1]

\* C6 (as claimed): after x11_cleanup the path is unset, the file it named is
\* gone, and the flag is what it was.
C6_CleanupAsClaimed ==
    last.op = "x11_cleanup" =>
        /\ last.outcome = "return"
        /\ Xauth(statefile) = None
        /\ Xauth(last.pre.statefile) # None => Xauth(last.pre.statefile)[1] \notin DOMAIN fs
        /\ Flag(statefile) = Flag(last.pre.statefile)

\* C6 (amended): x11_cleanup removes the file and the persisted path when a
\* path is persisted and its file is on disk, and otherwise changes nothing
\* (a path whose file is missing stays persisted); afterwards the file the
\* path named is not on disk; the flag is what it was.
C6_CleanupAmended ==
    last.op = "x11_cleanup" =>
        LET path == Xauth(last.pre.statefile)
        IN  /\ last.outcome = "return"
            /\ Flag(statefile) = Flag(last.pre.statefile)
            /\ path # None => path[1] \notin DOMAIN fs
            /\ IF path # None /\ path[1] \in DOMAIN last.pre.fs
               THEN /\ Xauth(statefile) = None
                    /\ DOMAIN fs = (DOMAIN last.pre.fs) \ {path[1]}
                    /\ \A q \in DOMAIN fs : fs[q] = last.pre.fs[q]
               ELSE World = last.pre

\* a cleanup that removed the persisted file
C6_Witness ==
    /\ last.op = "x11_cleanup"
    /\ Xauth(last.pre.statefile) # None
    /\ Xauth(last.pre.statefile)[1] \in DOMAIN last.pre.fs
    /\ Xauth(statefile) = None

StatusOutputs == { <<"running", "\n">>, <<"exited", "\n">>, <<"paused", "\n">>, <<>> }

OutputDirs == { None, Some(<<"out">>) }

CIArgs == { [profile |-> "isaaclab", yamls |-> None, envs |-> None],
            [profile |-> "ros2", yamls |-> Some(<<"x11.yaml">>),
             envs |-> Some(<<".env.extra">>)] }

EnvBaseShipped == << <<"DOCKER_ISAACLAB_PATH", "=", "/workspace/isaaclab", "\n">> >>

InitCI ==
    /\ IdleX11Vars
    /\ platform \in Platforms
    /\ display_set \in BOOLEAN
    /\ envfs \in { EnvFs(EnvBaseShipped, <<>>), EnvFs(<<>>, <<>>) }
    /\ args \in CIArgs
    /\ ci = __init__(args, envfs)
    /\ docker_status \in StatusOutputs
    /\ hostdirs \in { {context_dir}, {context_dir, <<"out">>} }
    /\ clast = NoCommand

Issued(op, output_dir, r) ==
    [op |-> op, output_dir |-> output_dir, was |-> docker_status, pre |-> hostdirs,
     cmds |-> r.cmds, outcome |-> r.outcome]

Start ==
    /\ ci.state = "ok"
    /\ clast' = Issued("start", None, start(ci))
    /\ docker_status' \in { <<"running", "\n">>, docker_status }   \* check=False
    /\ UNCHANGED <<envfs, args, ci, hostdirs>>
    /\ UNCHANGED x11vars

Enter ==
    /\ ci.state = "ok"
    /\ clast' = Issued("enter", None, enter(ci, docker_status))
    /\ UNCHANGED <<envfs, args, ci, docker_status, hostdirs>>
    /\ UNCHANGED x11vars

Stop ==
    /\ ci.state = "ok"
    /\ LET r == stop(ci, docker_status)
       IN  /\ clast' = Issued("stop", None, r)
           /\ docker_status' \in (IF r.outcome = "return" THEN { <<>>, docker_status }
                                  ELSE { docker_status })
    /\ UNCHANGED <<envfs, args, ci, hostdirs>>
    /\ UNCHANGED x11vars

Copy ==
    /\ ci.state = "ok"
    /\ \E output_dir \in OutputDirs, copied \in SUBSET (1..Len(Artifacts)) :
          LET r == copy(ci, docker_status, hostdirs, output_dir, copied)
          IN  /\ clast' = Issued("copy", output_dir, r)
              /\ hostdirs' = r.hostdirs
    /\ UNCHANGED <<envfs, args, ci, docker_status>>
    /\ UNCHANGED x11vars

Config ==
    /\ ci.state = "ok"
    /\ \E output_yaml \in { None, Some(<<"merged.yaml">>) } :
          clast' = Issued("config", output_yaml, config(ci, output_yaml))
    /\ UNCHANGED <<envfs, args, ci, docker_status, hostdirs>>
    /\ UNCHANGED x11vars

\* the container's main process ends by itself
ContainerExits ==
    /\ docker_status = <<"running", "\n">>
    /\ docker_status' = <<"exited", "\n">>
    /\ clast' = [op |-> "container_exits", output_dir |-> None, was |-> docker_status,
                 pre |-> hostdirs, cmds |-> <<>>, outcome |-> "return"]
    /\ UNCHANGED <<envfs, args, ci, hostdirs>>
    /\ UNCHANGED x11vars

NextCI ==
    \/ Start
    \/ Enter
    \/ Stop
    \/ Copy
    \/ Config
    \/ ContainerExits

SpecCI == InitCI /\ [][NextCI]_vars


(***************************************************************************)
(* Properties of the container commands (SpecCI).                          *)
(***************************************************************************)
\* C3: enter, stop and copy, called when the engine does not report the
\* container as running, end in a runtime error having issued the status
\* query and nothing else, and leave the host directories as they were.
C3_NotRunningFails ==
    (clast.op \in {"enter", "stop", "copy"} /\ clast.was # <<"running", "\n">>) =>
        /\ clast.outcome = "RuntimeError"
        /\ Len(clast.cmds) = 1
        /\ clast.cmds[1][3] = "inspect"
        /\ hostdirs = clast.pre
        /\ docker_status = clast.was

\* a copy into a directory without artifacts, refused
C3_Witness ==
    /\ clast.op = "copy"
    /\ clast.was = <<"exited", "\n">>
    /\ clast.outcome = "RuntimeError"
    /\ clast.output_dir = Some(<<"out">>)
    /\ <<"out">> \in hostdirs
    /\ <<"out", "artifacts">> \notin hostdirs

(***************************************************************************)
(* Properties of the construction (SpecInit).                              *)
(***************************************************************************)
CallerEnvList == IF args.envs = None THEN <<>> ELSE args.envs[1]

\* C8: the env-file arguments are the base pair, then the profile's pair unless
\* the profile (with "isaaclab" read as "base") is "base", then one pair for
\* each env file of the caller, in the caller's order.
C8_EnvFileOrder ==
    ci.state # "new" =>
        LET aef == ci.add_env_files
            is_base == args.profile \in {"base", "isaaclab"}
            off == IF is_base THEN 2 ELSE 4
        IN  /\ Len(aef) = off + 2 * Len(CallerEnvList)
            /\ aef[1] = "--env-file" /\ aef[2] = ".env.base"
            /\ ~is_base => aef[3] = "--env-file" /\ aef[4] = ".env." \o args.profile
            /\ \A i \in 1..Len(CallerEnvList) :
                  /\ aef[off + 2 * i - 1] = "--env-file"
                  /\ aef[off + 2 * i] = CallerEnvList[i]

\* a profile with its own env file and two env files of the caller
C8_Witness ==
    /\ ci.state = "ok"
    /\ args.profile = "ros2"
    /\ args.envs = Some(<<".env.ros2", ".env.extra">>)

\* the text without its leading and trailing white space
Trimmed(line) ==
    LET inked == { i \in 1..Len(line) : line[i] \notin Whitespace }
    IN  IF inked = {} THEN <<>>
        ELSE SubSeq(line, CHOOSE i \in inked : \A j \in inked : i <= j,
                          CHOOSE i \in inked : \A j \in inked : j <= i)

\* the env files in the order they are read, and the places <<file, line>> of
\* their lines that hold "="
FilesRead == [i \in 1..(Len(ci.add_env_files) \div 2) |-> ci.add_env_files[2 * i]]

LineAt(pl) == envfs[FilesRead[pl[1]]][pl[2]]

Assignments ==
    { pl \in UNION { {i} \X (1..Len(envfs[FilesRead[i]])) : i \in 1..Len(FilesRead) } :
        \E c \in 1..Len(LineAt(pl)) : LineAt(pl)[c] = "=" }

Defines(pl, key) ==
    LET t == Trimmed(LineAt(pl))
    IN  /\ Len(t) > Len(key)
        /\ SubSeq(t, 1, Len(key)) = key
        /\ t[Len(key) + 1] = "="
        /\ \A c \in 1..Len(key) : key[c] # "="

Before(p, q) == p[1] < q[1] \/ (p[1] = q[1] /\ p[2] < q[2])

\* C9: the parsed mapping has a key for every line that holds "=" and for no
\* other; the key is the text before the line's first "="; its value is what
\* follows that "=" in the last such line of the last file that defines the
\* key, further "=" included.
C9_DotVars ==
    ci.state = "ok" =>
        /\ \A pl \in Assignments : \E key \in DOMAIN ci.dot_vars : Defines(pl, key)
        /\ \A key \in DOMAIN ci.dot_vars :
              \E pl \in Assignments :
                 /\ Defines(pl, key)
                 /\ \A q \in Assignments : Defines(q, key) => (q = pl \/ Before(q, pl))
                 /\ key \o <<"=">> \o ci.dot_vars[key] = Trimmed(LineAt(pl))

\* key A set in .env.base and again, with a value holding "=", in a later file
C9_Witness ==
    /\ ci.state = "ok"
    /\ args.profile = "base"
    /\ args.envs = Some(<<".env.ros2", ".env.extra">>)
    /\ envfs[".env.base"] = << <<"A", "=", "1", "\n">>, <<"A", "\n">> >>
    /\ envfs[".env.extra"] = << <<" ", "A", "=", "2", "=", "3", " ", "\n">> >>
    /\ ci.dot_vars[<<"A">>] = <<"2", "=", "3">>

\* C10: the env-file arguments have even length and alternate "--env-file" with
\* a file name, so construction never ends in the odd-count RuntimeError.
C10_EnvFilePairs ==
    ci.state # "new" =>
        LET aef == ci.add_env_files
        IN  /\ Len(aef) % 2 = 0
            /\ ci.state # "RuntimeError"
            /\ \A i \in 1..Len(aef) :
                  IF i % 2 = 1 THEN aef[i] = "--env-file"
                  ELSE aef[i] \in {".env.base", ".env." \o ci.profile} \cup CallerEnvs

\* construction with caller env files and yamls that parsed every file
C10_Witness ==
    /\ ci.state = "ok"
    /\ args.yamls # None
    /\ Len(CallerEnvList) = MaxEnvs
    /\ Len(ci.add_env_files) = 4 + 2 * MaxEnvs

====
